---- MODULE Spec2Model ----
(***************************************************************************)
(* The vMix <-> Ember+ bridge of bridge.js as a state machine.             *)
(*                                                                         *)
(* One step of the model is one callback run by Node's event loop: the     *)
(* connect callback, a 'data', 'error' or 'close' handler of a socket, the *)
(* reconnect timer, or an Ember+ function invocation.  Callbacks run to    *)
(* completion, so each is one atomic action.                               *)
(*                                                                         *)
(* Text is modelled as sequences of one-character strings, bytes as        *)
(* sequences of byte tokens; Buffer.toString() is the UTF-8 decoder.       *)
(***************************************************************************)
EXTENDS Integers, Sequences, FiniteSets, TLC

VARIABLES
  vmixConnection,      \* bridge.js:44   null or the socket stored as active
  reconnectScheduled,  \* bridge.js:346  guard flag of scheduleReconnect
  params,              \* value of every parameter node of the Ember+ tree
  socks,               \* the sockets made by connectToVMix, with their closures
  timers,              \* pending setTimeout callbacks of scheduleReconnect
  ev,                  \* history: the callback that ran last and its input
  response,            \* history: what the last onInvocation returned
  wrote,               \* history: socket writes made by the last callback
  lines,               \* history: lines decoded by the last callback
  updates,             \* history: s.update calls made by the last callback
  failures,            \* history: reconnects scheduled since the last connect
  stream,              \* decoder runs: the byte stream the device sends
  fed,                 \* decoder runs: how many bytes of it were delivered
  lineLog,             \* decoder runs: all lines decoded so far
  dropped,             \* history: the dataBuffer of the socket closed last
  clientSet            \* history: an Ember+ client has set a value

vars == <<vmixConnection, reconnectScheduled, params, socks, timers, ev,
          response, wrote, lines, updates, failures, stream, fed, lineLog,
          dropped, clientSet>>

decoderVars == <<stream, fed, lineLog, dropped, clientSet>>

----------------------------------------------------------------------------
(* Bounds of the model *)

MaxSockets == 2      \* socket slots: the code itself never limits them
MaxWrites == 4       \* writes recorded per socket
MaxFailures == 5     \* where the history counter of failures saturates
MaxBuffer == 11      \* characters retained in dataBuffer between chunks
MaxTallyLen == 2     \* all tally strings up to this length are sent
MaxStreamLen == 4    \* decoder runs: length of the byte streams
MaxReceived == 31    \* characters one connection receives while they are logged

----------------------------------------------------------------------------
(* Program constants *)

NumInputs == 32           \* bridge.js:107, 407
maxRetryDelay == 30000    \* bridge.js:341
retryDelays == <<2000, 4000, 16000>>

null == 0                 \* bridge.js:44: no active connection
undefined == "undefined"  \* a lookup that finds no command
undefinedNode == <<"undefined", 0>>  \* a lookup that finds no node

CR == "\r"
LF == "\n"
CRLF == <<CR, LF>>

RECURSIVE Text(_)
(* the JavaScript string made of the characters cs *)
Text(cs) == IF cs = <<>> THEN "" ELSE cs[1] \o Text(Tail(cs))

(* Properties every plain object inherits from Object.prototype: a lookup  *)
(* obj[key] finds them when key is not an own property.                    *)
ObjectPrototypeKeys ==
  {"constructor", "toString", "toLocaleString", "valueOf", "hasOwnProperty",
   "isPrototypeOf", "propertyIsEnumerable", "__proto__", "__defineGetter__",
   "__defineSetter__", "__lookupGetter__", "__lookupSetter__"}

(* String(Object.prototype[key]) for the keys the model invokes *)
InheritedText(key) ==
  IF key = "constructor" THEN "function Object() { [native code] }"
  ELSE IF key = "__proto__" THEN "[object Object]"
  ELSE "function " \o key \o "() { [native code] }"

(* mutant: two rows of the table exchanged *)
functionCommandMappingSwapped ==
  [k \in {"Auto Mix 1", "Stinger 1", "Stinger 2", "Stinger 3", "Stinger 4",
          "Transition 1", "Transition 2", "Transition 3", "Transition 4"} |->
     CASE k = "Auto Mix 1" -> "FUNCTION CUT"
       [] k = "Stinger 1" -> "FUNCTION STINGER2"
       [] k = "Stinger 2" -> "FUNCTION STINGER1"
       [] k = "Stinger 3" -> "FUNCTION STINGER3"
       [] k = "Stinger 4" -> "FUNCTION STINGER4"
       [] k = "Transition 1" -> "FUNCTION TRANSITION1"
       [] k = "Transition 2" -> "FUNCTION TRANSITION2"
       [] k = "Transition 3" -> "FUNCTION TRANSITION3"
       [] k = "Transition 4" -> "FUNCTION TRANSITION4"]

(* bridge.js:53-63: the own properties of functionCommandMapping *)
functionCommandMappingOwn ==
  [k \in {"Auto Mix 1", "Stinger 1", "Stinger 2", "Stinger 3", "Stinger 4",
          "Transition 1", "Transition 2", "Transition 3", "Transition 4"} |->
     CASE k = "Auto Mix 1" -> "FUNCTION CUT"
       [] k = "Stinger 1" -> "FUNCTION STINGER1"
       [] k = "Stinger 2" -> "FUNCTION STINGER2"
       [] k = "Stinger 3" -> "FUNCTION STINGER3"
       [] k = "Stinger 4" -> "FUNCTION STINGER4"
       [] k = "Transition 1" -> "FUNCTION TRANSITION1"
       [] k = "Transition 2" -> "FUNCTION TRANSITION2"
       [] k = "Transition 3" -> "FUNCTION TRANSITION3"
       [] k = "Transition 4" -> "FUNCTION TRANSITION4"]

(* functionCommandMapping[identifier]: own properties first, then the      *)
(* prototype chain; undefined when neither has the key.                    *)
functionCommandMapping(identifier) ==
  IF identifier \in DOMAIN functionCommandMappingOwn
    THEN functionCommandMappingOwn[identifier]
  ELSE IF identifier \in ObjectPrototypeKeys THEN InheritedText(identifier)
  ELSE undefined

----------------------------------------------------------------------------
(* The Ember+ tree: the parameter nodes the bridge updates *)

programTallyNodes(i) == <<"Program Tally", i>>
previewTallyNodes(i) == <<"Preview Tally", i>>
vmixConnectedParameterNode == <<"vMix Connected", 1>>
ActsCategories == {"Recording", "MultiCorder", "Streaming"}

(* actsStatusNodes[category]: a parameter node, an inherited member of     *)
(* Object.prototype, or undefined.                                         *)
actsStatusNodes(category) ==
  IF category \in ActsCategories THEN <<"ACTS Status", category>>
  ELSE IF category \in ObjectPrototypeKeys THEN <<"Object.prototype", category>>
  ELSE undefinedNode

ParameterNodes ==
  {programTallyNodes(i) : i \in 1..NumInputs} \cup
  {previewTallyNodes(i) : i \in 1..NumInputs} \cup
  {vmixConnectedParameterNode} \cup
  {actsStatusNodes(c) : c \in ActsCategories}

(* the call s.update(node, {value}) *)
update(node, value) == [node |-> node, value |-> value]

(* The tree after the s.update calls of one callback, made in order: each  *)
(* node holds the value of the last call on it.  A call whose target is no *)
(* node of the tree changes no parameter.                                  *)
ApplyUpdates(tree, calls) ==
  [n \in DOMAIN tree |->
     LET ks == {k \in 1..Len(calls) : calls[k].node = n}
     IN IF ks = {} THEN tree[n]
        ELSE calls[CHOOSE k \in ks : \A j \in ks : j <= k].value]

vmixConnected == params[vmixConnectedParameterNode]

----------------------------------------------------------------------------
(* Text operations of the data handler *)

LeadByte == "<C3>"          \* first byte of a two-byte UTF-8 sequence
ContByte == "<A9>"          \* its continuation byte
EAcute == "<U+00E9>"        \* the character the two bytes encode
Replacement == "<U+FFFD>"   \* what the decoder emits for a malformed sequence

RECURSIVE toString(_)
(* Buffer.prototype.toString(): UTF-8 decoding of one chunk on its own.  A *)
(* lead byte without its continuation byte, and a continuation byte        *)
(* without its lead byte, each decode to U+FFFD.                           *)
toString(bs) ==
  IF bs = <<>> THEN <<>>
  ELSE IF bs[1] = LeadByte
    THEN IF Len(bs) >= 2 /\ bs[2] = ContByte
           THEN <<EAcute>> \o toString(SubSeq(bs, 3, Len(bs)))
           ELSE <<Replacement>> \o toString(Tail(bs))
  ELSE IF bs[1] = ContByte THEN <<Replacement>> \o toString(Tail(bs))
  ELSE <<bs[1]>> \o toString(Tail(bs))

(* String.prototype.indexOf('\r\n'): 0-based, -1 when absent *)
indexOfCRLF(cs) ==
  LET hits == {i \in 1..(Len(cs) - 1) : cs[i] = CR /\ cs[i + 1] = LF}
  IN IF hits = {} THEN -1
     ELSE (CHOOSE i \in hits : \A j \in hits : i <= j) - 1

(* String.prototype.substring(from, to) and substring(from), 0-based *)
substring(cs, from, to) == SubSeq(cs, from + 1, to)
substringFrom(cs, from) == SubSeq(cs, from + 1, Len(cs))

WhiteSpace == {" ", "\t", CR, LF}

RECURSIVE trimStart(_)
trimStart(cs) ==
  IF cs # <<>> /\ cs[1] \in WhiteSpace THEN trimStart(Tail(cs)) ELSE cs

RECURSIVE trimEnd(_)
trimEnd(cs) ==
  IF cs # <<>> /\ cs[Len(cs)] \in WhiteSpace
    THEN trimEnd(SubSeq(cs, 1, Len(cs) - 1)) ELSE cs

(* String.prototype.trim() *)
trim(cs) == trimEnd(trimStart(cs))

(* String.prototype.startsWith(prefix) *)
startsWith(cs, prefix) ==
  Len(cs) >= Len(prefix) /\ SubSeq(cs, 1, Len(prefix)) = prefix

RECURSIVE splitFrom(_, _)
splitFrom(cs, cur) ==
  IF cs = <<>> THEN <<cur>>
  ELSE IF cs[1] = " " THEN <<cur>> \o splitFrom(Tail(cs), <<>>)
  ELSE splitFrom(Tail(cs), Append(cur, cs[1]))

(* String.prototype.split(' '): every single space separates two parts *)
split(cs) == splitFrom(cs, <<>>)

TALLY_OK == <<"T", "A", "L", "L", "Y", " ", "O", "K">>
ACTS_OK == <<"A", "C", "T", "S", " ", "O", "K">>
TallyPrefixLength == 9    \* bridge.js:403

----------------------------------------------------------------------------
(* The data handler, bridge.js:390-444 *)

(* mutant: every digit but '0' counts as Preview *)
previewValueNonZero(digit) == (digit # "0")

(* mutant: every digit but '0' counts as Program *)
programValueNonZero(digit) == (digit # "0")

(* bridge.js:409, 410: the two values a tally digit stands for *)
programValue(digit) == (digit = "1")
previewValue(digit) == (digit = "2")

(* bridge.js:407: the loop visits the indices 0 .. TallyCount - 1 *)
TallyCount(tallyString) ==
  IF Len(tallyString) < NumInputs THEN Len(tallyString) ELSE NumInputs

(* mutant: a tally loop that runs over all inputs and resets the inputs   *)
(* past the end of the tally string                                        *)
TallyLoopResetting(tallyString) ==
  [k \in 1..(2 * NumInputs) |->
     LET i == (k - 1) \div 2
         digit == IF i + 1 <= Len(tallyString) THEN tallyString[i + 1] ELSE ""
     IN IF k % 2 = 1
          THEN update(programTallyNodes(i + 1), programValue(digit))
          ELSE update(previewTallyNodes(i + 1), previewValue(digit))]

(* bridge.js:407-420: the s.update calls of the tally loop, in order: for  *)
(* each index the Program node, then the Preview node, where they exist.   *)
TallyLoop(tallyString) ==
  LET both == [k \in 1..(2 * TallyCount(tallyString)) |->
                 LET i == (k - 1) \div 2
                     digit == tallyString[i + 1]
                 IN IF k % 2 = 1
                      THEN update(programTallyNodes(i + 1), programValue(digit))
                      ELSE update(previewTallyNodes(i + 1), previewValue(digit))]
  IN SelectSeq(both, LAMBDA c : c.node \in ParameterNodes)

(* mutant: every value token but "0" counts as active *)
actsValueNonZero(valueStr) == (valueStr # <<"0">>)

(* bridge.js:429: the value an ACTS value token stands for *)
actsValue(valueStr) == (valueStr = <<"1">>)

(* bridge.js:425-438: the s.update calls of one ACTS line *)
ActsLine(line) ==
  LET parts == split(line) IN
  IF Len(parts) >= 4
    THEN LET category == Text(parts[3])
             valueStr == parts[4]
             value == actsValue(valueStr)
         IN IF actsStatusNodes(category) # undefinedNode
              THEN <<update(actsStatusNodes(category), value)>>
              ELSE <<>>
    ELSE <<>>

(* bridge.js:402-442: the s.update calls of one decoded line *)
ProcessLine(line) ==
  IF startsWith(line, TALLY_OK)
    THEN TallyLoop(substringFrom(line, TallyPrefixLength))
  ELSE IF startsWith(line, ACTS_OK) THEN ActsLine(line)
  ELSE <<>>

RECURSIVE DrainNewestFirst(_, _, _)
(* mutant: the calls of a later line are made before those of the lines    *)
(* ahead of it                                                             *)
DrainNewestFirst(dataBuffer, calls, got) ==
  IF indexOfCRLF(dataBuffer) # -1
    THEN LET lineEndIndex == indexOfCRLF(dataBuffer)
             line == trim(substring(dataBuffer, 0, lineEndIndex))
         IN DrainNewestFirst(substringFrom(dataBuffer, lineEndIndex + 2),
                             ProcessLine(line) \o calls, Append(got, line))
    ELSE [dataBuffer |-> dataBuffer, calls |-> calls, lines |-> got]

RECURSIVE Drain(_, _, _)
(* bridge.js:394-443: the while loop that takes complete lines off the     *)
(* buffer; the result is the retained buffer, the s.update calls made and  *)
(* the lines decoded.                                                      *)
Drain(dataBuffer, calls, got) ==
  IF indexOfCRLF(dataBuffer) # -1
    THEN LET lineEndIndex == indexOfCRLF(dataBuffer)
             line == trim(substring(dataBuffer, 0, lineEndIndex))
         IN Drain(substringFrom(dataBuffer, lineEndIndex + 2),
                  calls \o ProcessLine(line), Append(got, line))
    ELSE [dataBuffer |-> dataBuffer, calls |-> calls, lines |-> got]

(* bridge.js:390-444: the handler on a chunk of bytes *)
OnData(dataBuffer, data) == Drain(dataBuffer \o toString(data), <<>>, <<>>)

----------------------------------------------------------------------------
(* Sockets.  A socket of net.createConnection is "connecting" until its    *)
(* connect callback runs, then "open"; "ended" once the peer has sent FIN  *)
(* (the socket has ended its own side and is no longer writable, 'close'   *)
(* follows); "errored" once 'error' was emitted (the socket is destroyed,  *)
(* 'close' follows in the same turn of the event loop); "free" marks a     *)
(* slot with no socket.  delayIndex and dataBuffer are the variables of    *)
(* the connectToVMix call that made the socket.                            *)

SocketIds == 1..MaxSockets
NoSocket == [state |-> "free", delayIndex |-> 0, dataBuffer |-> <<>>, written |-> <<>>]

(* mutant: the writable test of bridge.js:72 left out *)
WritableAlways(s) == TRUE

(* socket.writable, read at bridge.js:72 *)
Writable(s) == socks[s].state = "open"

ConnectErrorCodes == {"ECONNREFUSED", "ETIMEDOUT"}
EstablishedErrorCodes == {"ECONNRESET"}

(* what the device sends in one chunk: complete lines and pieces of lines *)
TallyChars == {"0", "1", "2", "9"}
TallyStringsUpTo(n) == UNION {[1..k -> TallyChars] : k \in 0..n}
FullTally == [i \in 1..NumInputs |-> IF i = NumInputs THEN "1" ELSE "0"]
LongTally == [i \in 1..(NumInputs + 1) |-> IF i >= NumInputs THEN "2" ELSE "0"]
TallyStrings == TallyStringsUpTo(MaxTallyLen) \cup {FullTally, LongTally}
TallyLines == {TALLY_OK \o <<" ">> \o t : t \in TallyStrings}

Recording == <<"R", "e", "c", "o", "r", "d", "i", "n", "g">>
MultiCorder == <<"M", "u", "l", "t", "i", "C", "o", "r", "d", "e", "r">>
Streaming == <<"S", "t", "r", "e", "a", "m", "i", "n", "g">>
External == <<"E", "x", "t", "e", "r", "n", "a", "l">>
Constructor == <<"c", "o", "n", "s", "t", "r", "u", "c", "t", "o", "r">>
CategoryTokens == {Recording, MultiCorder, Streaming, External, Constructor}
ValueTokens == {<<"1">>, <<"0">>, <<"1", "0">>}
ActsLines ==
  {ACTS_OK \o <<" ">> \o c \o <<" ">> \o v : c \in CategoryTokens, v \in ValueTokens}
  \cup {ACTS_OK \o <<" ">> \o c : c \in {Recording, External}}
  \cup {ACTS_OK \o <<" ">> \o Streaming \o <<" ">> \o <<"1">> \o <<" ">> \o <<"x">>}
OtherLines == {<<"V", "E", "R", "S", "I", "O", "N", " ", "O", "K">>}
DeviceLines == TallyLines \cup ActsLines \cup OtherLines

PartialLine == TALLY_OK \o <<" ", "1">>
TallyChunks ==
  {l \o CRLF : l \in TallyLines}
  \cup {TALLY_OK \o <<" ", "1", "1">> \o CRLF \o TALLY_OK \o <<" ", "0">> \o CRLF}
ActsChunks ==
  {l \o CRLF : l \in ActsLines \cup OtherLines}
  \cup {TALLY_OK \o <<" ", "1">> \o CRLF \o ACTS_OK \o <<" ">> \o Recording \o <<" ", "1">> \o CRLF,
        ACTS_OK \o <<" ">> \o Streaming \o <<" ", "1">> \o CRLF \o TALLY_OK \o <<" ", "0", "2">> \o CRLF}
Chunks ==
  {TALLY_OK \o <<" ", "2", "1">> \o CRLF,
   ACTS_OK \o <<" ">> \o Recording \o <<" ", "1">> \o CRLF,
   PartialLine}

TwoTallyLines ==
  TALLY_OK \o <<" ", "1", "1">> \o CRLF \o TALLY_OK \o <<" ", "0">> \o CRLF
TeardownChunks == Chunks \cup {TwoTallyLines}

InvokeIds == {"Stinger 2", "Auto Mix 1", "Fade", "constructor"}

NoResponse == [success |-> FALSE, error |-> "none"]
Event(type, sock, arg) == [type |-> type, sock |-> sock, arg |-> arg]

----------------------------------------------------------------------------
(* The connection supervisor, bridge.js:346-468 *)

(* mutant: one dataBuffer for all sockets: the new socket starts with what *)
(* the last one left                                                       *)
connectToVMixSharedBuffer(delayIndex) ==
  LET free == {s \in SocketIds : socks[s].state = "free"}
      s == CHOOSE x \in free : \A y \in free : x <= y
  IN /\ free # {}
     /\ socks' = [socks EXCEPT ![s] = [state |-> "connecting",
                                       delayIndex |-> delayIndex,
                                       dataBuffer |-> dropped,
                                       written |-> <<>>]]

(* bridge.js:370-388: connectToVMix(delayIndex) makes a socket and the     *)
(* variables its callbacks close over.                                     *)
connectToVMix(delayIndex) ==
  LET free == {s \in SocketIds : socks[s].state = "free"}
      s == CHOOSE x \in free : \A y \in free : x <= y
  IN /\ free # {}
     /\ socks' = [socks EXCEPT ![s] = [state |-> "connecting",
                                       delayIndex |-> delayIndex,
                                       dataBuffer |-> <<>>,
                                       written |-> <<>>]]

(* bridge.js:450, 461: the delay of the next reconnect *)
NextDelay(delayIndex) ==
  IF delayIndex < Len(retryDelays) THEN retryDelays[delayIndex + 1] ELSE maxRetryDelay

(* mutant: the index advances without saturating *)
NextIndexUnbounded(delayIndex) == delayIndex + 1

(* mutant: the index is handed on without being advanced *)
NextIndexStuck(delayIndex) == delayIndex

(* bridge.js:452, 463: the index handed to the next connectToVMix *)
NextIndex(delayIndex) ==
  IF delayIndex < Len(retryDelays) THEN delayIndex + 1 ELSE delayIndex

(* mutant: scheduleReconnect without its reconnectScheduled guard *)
scheduleReconnectUnguarded(delay, delayIndex) ==
  /\ reconnectScheduled' = TRUE
  /\ updates' = <<update(vmixConnectedParameterNode, FALSE)>>
  /\ params' = ApplyUpdates(params, updates')
  /\ timers' = Append(timers, [delay |-> delay, delayIndex |-> delayIndex])
  /\ failures' = IF failures < MaxFailures THEN failures + 1 ELSE failures

(* mutant: scheduleReconnect that also sets every parameter false *)
scheduleReconnectResetting(delay, delayIndex) ==
  IF ~reconnectScheduled
    THEN /\ reconnectScheduled' = TRUE
         /\ updates' = <<update(vmixConnectedParameterNode, FALSE)>>
         /\ params' = [n \in DOMAIN params |-> FALSE]
         /\ timers' = Append(timers, [delay |-> delay, delayIndex |-> delayIndex])
         /\ failures' = IF failures < MaxFailures THEN failures + 1 ELSE failures
    ELSE /\ updates' = <<>>
         /\ UNCHANGED <<reconnectScheduled, params, timers, failures>>

(* mutant: scheduleReconnect that sets its flag but no timer *)
scheduleReconnectNoTimer(delay, delayIndex) ==
  IF ~reconnectScheduled
    THEN /\ reconnectScheduled' = TRUE
         /\ updates' = <<update(vmixConnectedParameterNode, FALSE)>>
         /\ params' = ApplyUpdates(params, updates')
         /\ failures' = IF failures < MaxFailures THEN failures + 1 ELSE failures
         /\ UNCHANGED timers
    ELSE /\ updates' = <<>>
         /\ UNCHANGED <<reconnectScheduled, params, timers, failures>>

(* bridge.js:353-364: scheduleReconnect(delay, delayIndex) *)
scheduleReconnect(delay, delayIndex) ==
  IF ~reconnectScheduled
    THEN /\ reconnectScheduled' = TRUE
         /\ updates' = <<update(vmixConnectedParameterNode, FALSE)>>
         /\ params' = ApplyUpdates(params, updates')
         /\ timers' = Append(timers, [delay |-> delay, delayIndex |-> delayIndex])
         /\ failures' = IF failures < MaxFailures THEN failures + 1 ELSE failures
    ELSE /\ updates' = <<>>
         /\ UNCHANGED <<reconnectScheduled, params, timers, failures>>

(* The state once bridge.js has run to its last line, bridge.js:468: the   *)
(* tree is built with every parameter false, and connectToVMix() has made  *)
(* the first socket.                                                       *)
InitBridge ==
  /\ vmixConnection = null
  /\ reconnectScheduled = FALSE
  /\ params = [n \in ParameterNodes |-> FALSE]
  /\ socks = [s \in SocketIds |->
                IF s = 1 THEN [state |-> "connecting", delayIndex |-> 0,
                               dataBuffer |-> <<>>, written |-> <<>>]
                ELSE NoSocket]
  /\ timers = <<>>
  /\ ev = Event("start", 0, "")
  /\ response = NoResponse
  /\ wrote = <<>>
  /\ lines = <<>>
  /\ updates = <<>>
  /\ failures = 0
  /\ fed = 0
  /\ lineLog = <<>>
  /\ dropped = <<>>
  /\ clientSet = FALSE

Init == InitBridge /\ stream = <<>>

(* mutant: the connect callback subscribes to nothing *)
subscribeCommandsNone == <<>>

(* mutant: only the tally subscription is written *)
subscribeCommandsTallyOnly == <<"SUBSCRIBE TALLY\r\n">>

(* bridge.js:383-384: the two writes of the connect callback *)
subscribeCommands == <<"SUBSCRIBE TALLY\r\n", "SUBSCRIBE ACTS\r\n">>

(* bridge.js:373-385: the connect callback of socket s *)
Connect(s) ==
  /\ socks[s].state = "connecting"
  /\ vmixConnection' = s
  /\ updates' = <<update(vmixConnectedParameterNode, TRUE)>>
  /\ params' = ApplyUpdates(params, updates')
  /\ reconnectScheduled' = FALSE
  /\ socks' = [socks EXCEPT ![s].state = "open",
                            ![s].delayIndex = 0,
                            ![s].written = @ \o subscribeCommands]
  /\ wrote' = [k \in 1..Len(subscribeCommands) |->
                 [sock |-> s, data |-> subscribeCommands[k]]]
  /\ failures' = 0
  /\ ev' = Event("connect", s, "")
  /\ response' = NoResponse
  /\ lines' = <<>>
  /\ UNCHANGED <<timers, decoderVars>>

(* bridge.js:390-444: the 'data' handler of socket s, without the          *)
(* bookkeeping of the decoder runs                                         *)
DataCore(s, data) ==
  LET r == OnData(socks[s].dataBuffer, data) IN
  /\ socks[s].state = "open"
  /\ Len(r.dataBuffer) <= MaxBuffer
  /\ socks' = [socks EXCEPT ![s].dataBuffer = r.dataBuffer]
  /\ params' = ApplyUpdates(params, r.calls)
  /\ updates' = r.calls
  /\ lines' = r.lines
  /\ ev' = Event("data", s, "")
  /\ response' = NoResponse
  /\ wrote' = <<>>
  /\ UNCHANGED <<vmixConnection, reconnectScheduled, timers, failures>>

Data(s, data) == DataCore(s, data) /\ UNCHANGED decoderVars

(* The peer ends the connection: with allowHalfOpen off the socket ends    *)
(* its own side, so socket.writable (bridge.js:72) is false from here on.  *)
(* The bridge listens to no 'end' event; 'close' follows.                  *)
End(s) ==
  /\ socks[s].state = "open"
  /\ socks' = [socks EXCEPT ![s].state = "ended"]
  /\ ev' = Event("end", s, "")
  /\ response' = NoResponse
  /\ wrote' = <<>>
  /\ lines' = <<>>
  /\ updates' = <<>>
  /\ UNCHANGED <<vmixConnection, reconnectScheduled, params, timers, failures, decoderVars>>

(* bridge.js:447-456: the 'error' handler of socket s *)
Error(s, code) ==
  /\ \/ socks[s].state = "connecting" /\ code \in ConnectErrorCodes
     \/ socks[s].state \in {"open", "ended"} /\ code \in EstablishedErrorCodes
  /\ vmixConnection' = null
  /\ IF code = "ECONNREFUSED"
       THEN scheduleReconnect(NextDelay(socks[s].delayIndex), NextIndex(socks[s].delayIndex))
       ELSE /\ updates' = <<>>
            /\ UNCHANGED <<reconnectScheduled, params, timers, failures>>
  /\ socks' = [socks EXCEPT ![s].state = "errored"]
  /\ ev' = Event("error", s, code)
  /\ response' = NoResponse
  /\ wrote' = <<>>
  /\ lines' = <<>>
  /\ UNCHANGED decoderVars

(* bridge.js:459-464: the 'close' handler of socket s; the socket and its  *)
(* closure are gone afterwards.  Without the bookkeeping of the runs that  *)
(* log what a connection received.                                         *)
CloseCore(s) ==
  /\ socks[s].state \in {"ended", "errored"}
  /\ vmixConnection' = null
  /\ scheduleReconnect(NextDelay(socks[s].delayIndex), NextIndex(socks[s].delayIndex))
  /\ socks' = [socks EXCEPT ![s] = NoSocket]
  /\ ev' = Event("close", s, socks[s].delayIndex)
  /\ response' = NoResponse
  /\ wrote' = <<>>
  /\ lines' = <<>>

Close(s) == CloseCore(s) /\ UNCHANGED decoderVars

(* bridge.js:359-362: the timer callback of scheduleReconnect.  A timer    *)
(* runs at least 2 s after it was set, the 'close' of a destroyed socket   *)
(* in the turn of the event loop that destroyed it: the timer never        *)
(* overtakes the 'close' of a socket that has emitted 'error'.             *)
TimerFired(i) ==
  /\ i \in 1..Len(timers)
  /\ \A s \in SocketIds : socks[s].state # "errored"
  /\ reconnectScheduled' = FALSE
  /\ connectToVMix(timers[i].delayIndex)
  /\ timers' = [k \in 1..(Len(timers) - 1) |-> IF k < i THEN timers[k] ELSE timers[k + 1]]
  /\ ev' = Event("timer", 0, timers[i].delay)
  /\ response' = NoResponse
  /\ wrote' = <<>>
  /\ lines' = <<>>
  /\ updates' = <<>>
  /\ UNCHANGED <<vmixConnection, params, failures, decoderVars>>

(* bridge.js:65-84: s.onInvocation for the function named identifier *)
Invoke(identifier) ==
  LET command == functionCommandMapping(identifier) IN
  /\ ev' = Event("invoke", 0, identifier)
  /\ lines' = <<>>
  /\ updates' = <<>>
  /\ IF command # undefined
       THEN IF vmixConnection # null /\ Writable(vmixConnection)
              THEN /\ Len(socks[vmixConnection].written) < MaxWrites
                   /\ socks' = [socks EXCEPT ![vmixConnection].written =
                                                Append(@, command \o "\r\n")]
                   /\ wrote' = <<[sock |-> vmixConnection, data |-> command \o "\r\n"]>>
                   /\ response' = [success |-> TRUE, error |-> ""]
              ELSE /\ response' = [success |-> FALSE,
                                   error |-> "vMix connection not available."]
                   /\ wrote' = <<>>
                   /\ UNCHANGED socks
       ELSE /\ response' = [success |-> TRUE, error |-> ""]
            /\ wrote' = <<>>
            /\ UNCHANGED socks
  /\ UNCHANGED <<vmixConnection, reconnectScheduled, params, timers, failures, decoderVars>>

Next ==
  \/ \E s \in SocketIds : Connect(s)
  \/ \E s \in SocketIds : \E data \in Chunks : Data(s, data)
  \/ \E s \in SocketIds : End(s)
  \/ \E s \in SocketIds : \E code \in ConnectErrorCodes \cup EstablishedErrorCodes : Error(s, code)
  \/ \E s \in SocketIds : Close(s)
  \/ \E i \in 1..Len(timers) : TimerFired(i)
  \/ \E identifier \in InvokeIds : Invoke(identifier)

Spec == Init /\ [][Next]_vars

(* The event loop delivers what is due: the 'close' of a socket that has   *)
(* ended or was destroyed (bridge.js:459), and the callback of a timer     *)
(* that was set (bridge.js:359).                                           *)
SpecFair ==
  /\ Init
  /\ [][Next]_vars
  /\ WF_vars(\E s \in SocketIds : Close(s))
  /\ WF_vars(\E i \in 1..Len(timers) : TimerFired(i))

(* Runs that log what each connection receives: stream holds the bytes the *)
(* current connection has received, lineLog the lines decoded from them,   *)
(* dropped the dataBuffer the last closed socket took with it.             *)
Receive(s, data) ==
  /\ Len(stream) + Len(data) <= MaxReceived
  /\ DataCore(s, data)
  /\ stream' = stream \o data
  /\ fed' = Len(stream')
  /\ lineLog' = lineLog \o lines'
  /\ dropped' = dropped
  /\ clientSet' = clientSet

CloseDropping(s) ==
  /\ CloseCore(s)
  /\ dropped' = socks[s].dataBuffer
  /\ clientSet' = clientSet
  /\ stream' = <<>>
  /\ fed' = 0
  /\ lineLog' = <<>>

NextTeardown ==
  \/ \E s \in SocketIds : Connect(s)
  \/ \E s \in SocketIds : \E data \in TeardownChunks : Receive(s, data)
  \/ \E s \in SocketIds : End(s)
  \/ \E s \in SocketIds : \E code \in ConnectErrorCodes \cup EstablishedErrorCodes : Error(s, code)
  \/ \E s \in SocketIds : CloseDropping(s)
  \/ \E i \in 1..Len(timers) : TimerFired(i)

SpecTeardown == Init /\ [][NextTeardown]_vars

(* Runs that connect once and then receive tally reports *)
NextTally ==
  \/ \E s \in SocketIds : Connect(s)
  \/ \E s \in SocketIds : \E data \in TallyChunks : Data(s, data)

SpecTally == Init /\ [][NextTally]_vars

(* bridge.js:86-90: s.onSetValue: the value an Ember+ client asks for is   *)
(* written to the node as it is.                                           *)
SetNodes == {programTallyNodes(1), previewTallyNodes(1)}
SetValue(node, value) ==
  /\ updates' = <<update(node, value)>>
  /\ params' = ApplyUpdates(params, updates')
  /\ clientSet' = TRUE
  /\ ev' = Event("setValue", 0, "")
  /\ response' = NoResponse
  /\ wrote' = <<>>
  /\ lines' = <<>>
  /\ UNCHANGED <<vmixConnection, reconnectScheduled, socks, timers, failures,
                 stream, fed, lineLog, dropped>>

(* Runs that receive tally reports while Ember+ clients set values *)
NextSetValue ==
  \/ \E s \in SocketIds : Connect(s)
  \/ \E s \in SocketIds : \E data \in TallyChunks : Data(s, data)
  \/ \E node \in SetNodes : \E value \in BOOLEAN : SetValue(node, value)

SpecSetValue == Init /\ [][NextSetValue]_vars

(* Runs that connect once and then receive activity reports *)
NextActs ==
  \/ \E s \in SocketIds : Connect(s)
  \/ \E s \in SocketIds : \E data \in ActsChunks : Data(s, data)

SpecActs == Init /\ [][NextActs]_vars

(* Decoder runs: the device sends one byte stream, which reaches the data  *)
(* handler of the connection cut into chunks at arbitrary places.          *)
DecoderBytes == {CR, LF, " ", "a", LeadByte, ContByte}
ByteStreams == UNION {[1..n -> DecoderBytes] : n \in 0..MaxStreamLen}

InitDecoder == InitBridge /\ stream \in ByteStreams

(* the next k bytes of the stream arrive as one 'data' event *)
Feed(s, k) ==
  /\ k \in 1..(Len(stream) - fed)
  /\ DataCore(s, SubSeq(stream, fed + 1, fed + k))
  /\ fed' = fed + k
  /\ lineLog' = lineLog \o lines'
  /\ stream' = stream
  /\ dropped' = dropped
  /\ clientSet' = clientSet

NextDecoder ==
  \/ \E s \in SocketIds : Connect(s)
  \/ \E s \in SocketIds : \E k \in 1..MaxStreamLen : Feed(s, k)

SpecDecoder == InitDecoder /\ [][NextDecoder]_vars

----------------------------------------------------------------------------
(* What the claims are stated with *)

SomeOpen == \E s \in SocketIds : socks[s].state = "open"

(* the socket has been sent both subscriptions, first of all *)
Subscribed(s) ==
  /\ Len(socks[s].written) >= 2
  /\ socks[s].written[1] = "SUBSCRIBE TALLY\r\n"
  /\ socks[s].written[2] = "SUBSCRIBE ACTS\r\n"

(* the delay of the n-th consecutive failure, as the README gives it *)
ExpectedDelay(n) ==
  CASE n = 1 -> 2000
    [] n = 2 -> 4000
    [] n = 3 -> 16000
    [] OTHER -> 30000

(* the table of function commands of the README *)
ReadmeCommands ==
  ("Auto Mix 1" :> "FUNCTION CUT") @@
  ("Stinger 1" :> "FUNCTION STINGER1") @@
  ("Stinger 2" :> "FUNCTION STINGER2") @@
  ("Stinger 3" :> "FUNCTION STINGER3") @@
  ("Stinger 4" :> "FUNCTION STINGER4") @@
  ("Transition 1" :> "FUNCTION TRANSITION1") @@
  ("Transition 2" :> "FUNCTION TRANSITION2") @@
  ("Transition 3" :> "FUNCTION TRANSITION3") @@
  ("Transition 4" :> "FUNCTION TRANSITION4")

Invoked(identifier) == ev.type = "invoke" /\ ev.arg = identifier
InvokedMapped == ev.type = "invoke" /\ ev.arg \in DOMAIN ReadmeCommands
InvokedUnmapped == ev.type = "invoke" /\ ev.arg \notin DOMAIN ReadmeCommands

(* the last callback was a data handler that decoded exactly one line *)
OneLine == ev.type = "data" /\ Len(lines) = 1
LastLine == lines[Len(lines)]

(* the space-separated tokens of a line, by the places of its spaces *)
Spaces(line) == {i \in 1..Len(line) : line[i] = " "}
TokenCount(line) == Cardinality(Spaces(line)) + 1
NthSpace(line, n) ==
  CHOOSE i \in Spaces(line) : Cardinality({j \in Spaces(line) : j <= i}) = n
Token(line, n) ==
  SubSeq(line,
         IF n = 1 THEN 1 ELSE NthSpace(line, n - 1) + 1,
         IF n < TokenCount(line) THEN NthSpace(line, n) - 1 ELSE Len(line))

TallyReportPrefix == <<"T", "A", "L", "L", "Y", " ", "O", "K", " ">>
IsTallyReport(line) ==
  Len(line) >= Len(TallyReportPrefix)
  /\ SubSeq(line, 1, Len(TallyReportPrefix)) = TallyReportPrefix
TallyOf(line) == SubSeq(line, Len(TallyReportPrefix) + 1, Len(line))

ActsReportPrefix == <<"A", "C", "T", "S", " ", "O", "K">>
IsActsReport(line) ==
  Len(line) >= Len(ActsReportPrefix)
  /\ SubSeq(line, 1, Len(ActsReportPrefix)) = ActsReportPrefix
IdentifierTable == {"Recording", "MultiCorder", "Streaming"}

----------------------------------------------------------------------------
(* C1: in every reachable state the 'vMix Connected' parameter is true     *)
(* exactly when an active connection is stored in vmixConnection and that  *)
(* connection has made its two subscription writes; in particular it is    *)
(* false once an error of any code has cleared the active connection.      *)
C1_ConnectedIffActive ==
  vmixConnected <=> (vmixConnection # null /\ Subscribed(vmixConnection))

(* C2: every reconnect is scheduled with the delay of its place in the run *)
(* of consecutive failures: 2 s, 4 s, 16 s, then 30 s for every further    *)
(* one; a successful connect starts the run again, so the next failure     *)
(* waits 2 s.  The timer that fires waited that delay.                     *)
C2_BackoffDelays ==
  /\ \A i \in 1..Len(timers) :
       failures >= 1 /\ timers[i].delay = ExpectedDelay(failures)
  /\ ev.type = "timer" => failures >= 1 /\ ev.arg = ExpectedDelay(failures)

C2_Witness ==
  /\ failures = 5
  /\ Len(timers) = 1
  /\ timers[1].delay = 30000
  /\ ev.type = "close"

(* C3: at most one reconnect timer is pending at any time; once a socket   *)
(* has closed, with or without an 'error' before its 'close', exactly one  *)
(* timer is pending and it carries the socket's back-off index advanced    *)
(* once (saturating at 3); a scheduleReconnect call made while a reconnect *)
(* is scheduled sets no timer and changes no state.                        *)
C3_AtMostOneTimer ==
  /\ Len(timers) <= 1
  /\ ev.type = "close" =>
       /\ Len(timers) = 1
       /\ timers[1].delayIndex = (IF ev.arg < 3 THEN ev.arg + 1 ELSE 3)
       /\ reconnectScheduled

C3_GuardedCallIsNoOp ==
  \A s \in SocketIds :
    (reconnectScheduled /\ (Close(s) \/ Error(s, "ECONNREFUSED")))
      => UNCHANGED <<timers, reconnectScheduled, params, failures>>

C3_SingleReconnect == [](C3_AtMostOneTimer) /\ [][C3_GuardedCallIsNoOp]_vars

C3_Witness ==
  /\ ev.type = "close"
  /\ updates = <<>>
  /\ Len(timers) = 1
  /\ timers[1].delayIndex = 2

(* C4: an invocation of a function of the command table that arrives      *)
(* while no connection is open (before the first connect, while            *)
(* connecting, after the peer ended the connection, after an error or a    *)
(* close, during back-off) returns failure with the reason 'connection not *)
(* available' and writes to no socket.                                     *)
C4_NoConnectionFails ==
  (InvokedMapped /\ ~SomeOpen) =>
    /\ response = [success |-> FALSE, error |-> "vMix connection not available."]
    /\ wrote = <<>>

C4_Witness ==
  /\ Invoked("Stinger 2")
  /\ vmixConnection # null
  /\ socks[vmixConnection].state = "ended"
  /\ response.success = FALSE

(* C5: while a connection is open, an invocation of a function of the      *)
(* command table writes, once and to the active connection, the command of *)
(* the README table followed by CRLF, and reports success.                 *)
C5_CommandWritten ==
  (InvokedMapped /\ SomeOpen) =>
    /\ vmixConnection # null
    /\ socks[vmixConnection].state = "open"
    /\ wrote = <<[sock |-> vmixConnection,
                  data |-> ReadmeCommands[ev.arg] \o "\r\n"]>>
    /\ socks[vmixConnection].written[Len(socks[vmixConnection].written)]
         = ReadmeCommands[ev.arg] \o "\r\n"
    /\ response = [success |-> TRUE, error |-> ""]

C5_Witness ==
  /\ Invoked("Stinger 2")
  /\ wrote = <<[sock |-> 1, data |-> "FUNCTION STINGER2\r\n"]>>
  /\ response.success

(* C6: an invocation whose identifier is not in the command table reports  *)
(* success and writes nothing, connected or not.                           *)
C6_UnmappedIsNoOp ==
  InvokedUnmapped => (response.success /\ wrote = <<>>)

(* C7: however the byte stream is cut into chunks, the lines decoded on   *)
(* the connection so far are, in order, the lines that one data event      *)
(* carrying all the bytes delivered so far decodes.                        *)
C7_ChunkInvariance ==
  fed > 0 => lineLog = OnData(<<>>, SubSeq(stream, 1, fed)).lines

(* C8: after a tally report with a tally string of length L <= 32, for     *)
(* every i <= L the Program parameter of input i is (character = '1') and  *)
(* the Preview parameter is (character = '2'), and both were written.      *)
C8_TallyProjection ==
  (ev.type = "data" /\ lines # <<>> /\ IsTallyReport(LastLine)
     /\ Len(TallyOf(LastLine)) <= 32) =>
    \A i \in 1..Len(TallyOf(LastLine)) :
      LET c == TallyOf(LastLine)[i] IN
      /\ params[<<"Program Tally", i>>] = (c = "1")
      /\ params[<<"Preview Tally", i>>] = (c = "2")
      /\ \E k \in 1..Len(updates) :
           updates[k] = [node |-> <<"Program Tally", i>>, value |-> (c = "1")]
      /\ \E k \in 1..Len(updates) :
           updates[k] = [node |-> <<"Preview Tally", i>>, value |-> (c = "2")]

C8_Witness ==
  /\ ev.type = "data"
  /\ lines = <<TallyReportPrefix \o <<"1", "1">>, TallyReportPrefix \o <<"0">>>>
  /\ ~params[<<"Program Tally", 1>>]
  /\ params[<<"Program Tally", 2>>]

(* C9: an activity report with at least 4 tokens whose 3rd token is in the *)
(* identifier table makes exactly one update: that category's parameter    *)
(* becomes (4th token = "1"); an activity report with fewer than 4 tokens  *)
(* makes no update.                                                        *)
C9_ActsProjection ==
  (OneLine /\ IsActsReport(LastLine)) =>
    IF TokenCount(LastLine) >= 4
      THEN Text(Token(LastLine, 3)) \in IdentifierTable =>
             /\ updates = <<[node |-> <<"ACTS Status", Text(Token(LastLine, 3))>>,
                             value |-> (Token(LastLine, 4) = <<"1">>)]>>
             /\ params[<<"ACTS Status", Text(Token(LastLine, 3))>>]
                  = (Token(LastLine, 4) = <<"1">>)
      ELSE updates = <<>>

C9_Witness ==
  /\ OneLine
  /\ Text(LastLine) = "ACTS OK Streaming 10"
  /\ ~params[<<"ACTS Status", "Streaming">>]
  /\ params[<<"ACTS Status", "Recording">>]

(* C10: an activity report whose category token is not a key of the        *)
(* identifier table makes no update, whatever the category string is.      *)
C10_UnknownCategoryIsNoOp ==
  (OneLine /\ IsActsReport(LastLine) /\ TokenCount(LastLine) >= 4
     /\ Text(Token(LastLine, 3)) \notin IdentifierTable) =>
    updates = <<>>


(* C11: every successful connect writes exactly 'SUBSCRIBE TALLY' CRLF and *)
(* then 'SUBSCRIBE ACTS' CRLF on the socket that connected, once for that  *)
(* connection: they are the first two writes of every socket that has      *)
(* connected and are written in no other callback; a socket that has not   *)
(* connected has no write at all.                                          *)
SubscriptionTexts == {"SUBSCRIBE TALLY\r\n", "SUBSCRIBE ACTS\r\n"}
C11_SubscribeOncePerConnect ==
  /\ ev.type = "connect" =>
       wrote = <<[sock |-> ev.sock, data |-> "SUBSCRIBE TALLY\r\n"],
                 [sock |-> ev.sock, data |-> "SUBSCRIBE ACTS\r\n"]>>
  /\ ev.type # "connect" =>
       \A k \in 1..Len(wrote) : wrote[k].data \notin SubscriptionTexts
  /\ \A s \in SocketIds :
       /\ socks[s].state \in {"free", "connecting"} => socks[s].written = <<>>
       /\ (ev.type = "error" /\ ev.sock = s /\ ev.arg \in ConnectErrorCodes) =>
            socks[s].written = <<>>
       /\ socks[s].state \in {"open", "ended"} => Len(socks[s].written) >= 2
       /\ socks[s].written # <<>> =>
            /\ Len(socks[s].written) >= 2
            /\ socks[s].written[1] = "SUBSCRIBE TALLY\r\n"
            /\ socks[s].written[2] = "SUBSCRIBE ACTS\r\n"
            /\ \A k \in 3..Len(socks[s].written) :
                 socks[s].written[k] \notin SubscriptionTexts

(* a reconnect has subscribed again: the tally still shows a report of an  *)
(* earlier connection                                                      *)
C11_Witness ==
  /\ ev.type = "connect"
  /\ params[programTallyNodes(2)]
  /\ socks[ev.sock].written = <<"SUBSCRIBE TALLY\r\n", "SUBSCRIBE ACTS\r\n">>
(* C12: 'vMix Connected' is false until the first connect callback has     *)
(* subscribed, and once an established connection has emitted 'error'      *)
(* (whatever the code) or 'close' it is false before any later timer,      *)
(* data or invocation callback has run.                                    *)
Established(s) == socks[s].state \in {"open", "ended", "errored"} /\ Subscribed(s)
Disconnected(s) == socks[s].state = "errored" /\ Subscribed(s)
C12_FlagFalseWhenDisconnected ==
  /\ vmixConnected => \E s \in SocketIds : Established(s)
  /\ (ev.type = "close") => ~vmixConnected
  /\ (ev.type \in {"timer", "data", "invoke"} /\ \E s \in SocketIds : Disconnected(s))
       => ~vmixConnected
(* C13: the supervisor has no terminal state: the 'close' of every socket, *)
(* whatever happened to it before, leaves a reconnect timer pending, and   *)
(* whenever no socket is connecting or connected (a connect attempt has    *)
(* failed, or an established connection has ended or emitted 'error' of    *)
(* any code) a new connect attempt is eventually made.                     *)
NoAttempt == \A s \in SocketIds : socks[s].state \notin {"connecting", "open"}
Attempting == \E s \in SocketIds : socks[s].state = "connecting"
C13_AlwaysRetries ==
  /\ [](ev.type = "close" => Len(timers) > 0)
  /\ (NoAttempt ~> Attempting)

(* a new attempt is under way after an established connection, which had   *)
(* received a tally report, was lost and the attempt after it failed too   *)
C13_Witness ==
  /\ ev.type = "timer"
  /\ params[programTallyNodes(2)]
  /\ \E s \in SocketIds : socks[s].state = "connecting" /\ socks[s].delayIndex = 2
(* C14: at most one device socket exists at any time: a connect attempt    *)
(* starts only in the timer callback, and only when no other socket is     *)
(* connecting or connected; vmixConnection, when set, is that one socket,  *)
(* and an invocation writes to no other.                                   *)
Existing == {s \in SocketIds : socks[s].state # "free"}
C14_OneSocket ==
  /\ Cardinality(Existing) <= 1
  /\ vmixConnection # null => vmixConnection \in Existing
  /\ ev.type = "invoke" =>
       \A k \in 1..Len(wrote) : wrote[k].sock = vmixConnection /\ Writable(wrote[k].sock)
C14_AttemptOnlyByTimer ==
  \A s \in SocketIds :
    (socks'[s].state = "connecting" /\ socks[s].state # "connecting") =>
      /\ ev'.type = "timer"
      /\ \A o \in SocketIds : socks[o].state \notin {"connecting", "open"}
C14_SingleConnection == [](C14_OneSocket) /\ [][C14_AttemptOnlyByTimer]_vars

(* the timer has started a new attempt after an established connection,    *)
(* which had received a tally report, was lost                             *)
C14_Witness ==
  /\ ev.type = "timer"
  /\ params[previewTallyNodes(1)]
  /\ vmixConnection = null
  /\ Existing # {} /\ \A s \in Existing : socks[s].state = "connecting" /\ socks[s].delayIndex = 1
(* C15: a data callback that decodes one tally report with a tally string  *)
(* of length L leaves the Program and Preview parameters of every input    *)
(* above L as they were, makes no update call for them, and makes no       *)
(* update call for a character past the 32nd: the calls are those of the   *)
(* first min(L, 32) inputs, all on nodes of the tree.                      *)
TallyInputs == 1..32
TallyLength(line) == IF IsTallyReport(line) THEN Len(TallyOf(line)) ELSE 0
IsTallyLine(line) == IsTallyReport(line) \/ line = <<"T", "A", "L", "L", "Y", " ", "O", "K">>
C15_Frame ==
  (ev'.type = "data" /\ Len(lines') = 1 /\ IsTallyLine(lines'[1])) =>
    LET L == TallyLength(lines'[1]) IN
    /\ \A i \in TallyInputs :
         i > L => /\ params'[<<"Program Tally", i>>] = params[<<"Program Tally", i>>]
                  /\ params'[<<"Preview Tally", i>>] = params[<<"Preview Tally", i>>]
    /\ \A k \in 1..Len(updates') :
         /\ updates'[k].node[1] \in {"Program Tally", "Preview Tally"}
         /\ updates'[k].node[2] \in TallyInputs
         /\ updates'[k].node[2] <= L
    /\ Len(updates') = 2 * (IF L < 32 THEN L ELSE 32)
    /\ DOMAIN params' = DOMAIN params
C15_TallyFrame == [][C15_Frame]_vars

(* a report of one character has left input 32 in preview, where a report  *)
(* of 33 characters had put it                                             *)
C15_Witness ==
  /\ ev.type = "data"
  /\ lines = <<TallyReportPrefix \o <<"0">>>>
  /\ params[<<"Preview Tally", 32>>]
  /\ ~params[<<"Program Tally", 32>>]
(* C16: the receive buffer belongs to one connection: a socket starts with *)
(* an empty dataBuffer whatever the socket before it had left undecoded,   *)
(* and the lines decoded on a connection, the first one included, are the  *)
(* lines of the bytes that connection has received and of nothing else.    *)
C16_BufferPerConnection ==
  /\ \A s \in SocketIds :
       /\ socks[s].state \in {"free", "connecting"} => socks[s].dataBuffer = <<>>
       /\ socks[s].state = "open" =>
            socks[s].dataBuffer = OnData(<<>>, stream).dataBuffer
  /\ ev.type = "connect" => socks[ev.sock].dataBuffer = <<>>
  /\ lineLog = OnData(<<>>, stream).lines

(* the socket before this one was closed with 'TALLY OK 1' undecoded; this *)
(* one has decoded its first line                                          *)
C16_Witness ==
  /\ dropped = <<"T", "A", "L", "L", "Y", " ", "O", "K", " ", "1">>
  /\ ev.type = "data"
  /\ lineLog = <<TallyReportPrefix \o <<"2", "1">>>>
(* C17: on one connection the lines are decoded in the order their bytes   *)
(* were received, and a data callback makes the update calls of its lines  *)
(* line by line in that order, all calls of a line before any call of the  *)
(* next, also when one chunk holds several lines; the callback does        *)
(* nothing else in between: it writes no command and answers no            *)
(* invocation, and every parameter holds the value of the last call on it. *)
LineEnds == {i \in 1..(Len(stream) - 1) : stream[i] = "\r" /\ stream[i + 1] = "\n"}
NthLineEnd(n) == CHOOSE i \in LineEnds : Cardinality({j \in LineEnds : j <= i}) = n
ReceivedLines ==
  [n \in 1..Cardinality(LineEnds) |->
     SubSeq(stream, IF n = 1 THEN 1 ELSE NthLineEnd(n - 1) + 2, NthLineEnd(n) - 1)]
ExpectedCalls(line) ==
  IF IsTallyReport(line)
    THEN [k \in 1..(2 * (IF Len(TallyOf(line)) < 32 THEN Len(TallyOf(line)) ELSE 32)) |->
            IF k % 2 = 1
              THEN [node |-> <<"Program Tally", (k + 1) \div 2>>,
                    value |-> (TallyOf(line)[(k + 1) \div 2] = "1")]
              ELSE [node |-> <<"Preview Tally", k \div 2>>,
                    value |-> (TallyOf(line)[k \div 2] = "2")]]
  ELSE IF IsActsReport(line) /\ TokenCount(line) >= 4
            /\ Text(Token(line, 3)) \in IdentifierTable
    THEN <<[node |-> <<"ACTS Status", Text(Token(line, 3))>>,
            value |-> (Token(line, 4) = <<"1">>)]>>
  ELSE <<>>
RECURSIVE ExpectedCallsOf(_)
ExpectedCallsOf(ls) ==
  IF ls = <<>> THEN <<>> ELSE ExpectedCalls(Head(ls)) \o ExpectedCallsOf(Tail(ls))
C17_LinesInOrder ==
  /\ lineLog = ReceivedLines
  /\ ev.type = "data" =>
       /\ Len(lines) <= Len(lineLog)
       /\ lines = SubSeq(lineLog, Len(lineLog) - Len(lines) + 1, Len(lineLog))
       /\ updates = ExpectedCallsOf(lines)
       /\ \A k \in 1..Len(updates) :
            (\A j \in (k + 1)..Len(updates) : updates[j].node # updates[k].node)
              => params[updates[k].node] = updates[k].value
       /\ wrote = <<>>
       /\ response = NoResponse

(* one chunk brought 'TALLY OK 11' and 'TALLY OK 0': input 1 holds the     *)
(* value of the second line, input 2 that of the first                     *)
C17_Witness ==
  /\ ev.type = "data"
  /\ Len(lines) = 2
  /\ Len(updates) = 6
  /\ ~params[<<"Program Tally", 1>>]
  /\ params[<<"Program Tally", 2>>]
(* C18: the back-off index (delayIndex of the socket, or of the pending    *)
(* timer once a reconnect is scheduled) is always within 0..3; a scheduled *)
(* reconnect carries the index of the socket that failed advanced by one,  *)
(* or 3 when that was 3 already; the index never decreases except in the   *)
(* connect callback, which alone brings it back to 0.                      *)
BackoffIndex ==
  IF timers # <<>> THEN timers[Len(timers)].delayIndex
  ELSE IF Existing # {} THEN socks[CHOOSE s \in Existing : TRUE].delayIndex
  ELSE 0
C18_IndexInRange ==
  /\ \A s \in SocketIds : socks[s].delayIndex \in 0..3
  /\ \A i \in 1..Len(timers) : timers[i].delayIndex \in 1..3
C18_IndexStep ==
  /\ Len(timers') > Len(timers) =>
       timers'[Len(timers')].delayIndex =
         (IF BackoffIndex < 3 THEN BackoffIndex + 1 ELSE 3)
  /\ ev'.type # "connect" => BackoffIndex' >= BackoffIndex
  /\ (BackoffIndex' = 0 /\ BackoffIndex # 0) => ev'.type = "connect"
  /\ ev'.type = "connect" => BackoffIndex' = 0
C18_BackoffIndex == [](C18_IndexInRange) /\ [][C18_IndexStep]_vars

(* the fifth attempt in a row is under way, with the index still at 3 *)
C18_Witness ==
  /\ ev.type = "timer"
  /\ failures = 5
  /\ \E s \in SocketIds : socks[s].state = "connecting" /\ socks[s].delayIndex = 3
(* C19: the supervisor is never stuck: in every reachable state a socket   *)
(* exists (connecting, connected, or destroyed and awaiting its 'close')   *)
(* or a reconnect timer is pending, and reconnectScheduled is true only    *)
(* while a timer is pending.                                               *)
C19_NeverStuck ==
  /\ (\E s \in SocketIds : socks[s].state \in {"connecting", "open", "ended", "errored"})
       \/ Len(timers) > 0
  /\ reconnectScheduled => Len(timers) > 0

(* after the 'close' of a refused attempt no socket is left: the timer set *)
(* by the 'error' handler is what keeps the supervisor going               *)
C19_Witness ==
  /\ ev.type = "close"
  /\ \A s \in SocketIds : socks[s].state = "free"
  /\ reconnectScheduled
  /\ Len(timers) = 1
(* C20: on every socket the two subscription writes come before every      *)
(* function command: the socket stored in vmixConnection has made them,    *)
(* and whatever an invocation writes is the third or a later write of its  *)
(* socket.                                                                 *)
C20_SubscribedBeforeCommands ==
  /\ vmixConnection # null =>
       /\ Len(socks[vmixConnection].written) >= 2
       /\ socks[vmixConnection].written[1] = "SUBSCRIBE TALLY\r\n"
       /\ socks[vmixConnection].written[2] = "SUBSCRIBE ACTS\r\n"
  /\ \A s \in SocketIds : \A k \in 1..Len(socks[s].written) :
       socks[s].written[k] \notin SubscriptionTexts =>
         /\ k > 2
         /\ socks[s].written[1] = "SUBSCRIBE TALLY\r\n"
         /\ socks[s].written[2] = "SUBSCRIBE ACTS\r\n"
  /\ (ev.type = "invoke" /\ wrote # <<>>) =>
       /\ Len(socks[wrote[1].sock].written) >= 3
       /\ socks[wrote[1].sock].written[Len(socks[wrote[1].sock].written)] = wrote[1].data

(* two commands were written to the connection, after its subscriptions *)
C20_Witness ==
  /\ ev.type = "invoke"
  /\ vmixConnection # null
  /\ socks[vmixConnection].written =
       <<"SUBSCRIBE TALLY\r\n", "SUBSCRIBE ACTS\r\n",
         "FUNCTION STINGER2\r\n", "FUNCTION CUT\r\n">>
(* C21: the callbacks of a disconnect and a reconnect ('end', 'error',     *)
(* 'close', the timer, 'connect') leave every Program, Preview and         *)
(* activity parameter as it was; of the parameters only 'vMix Connected'   *)
(* changes, through its own update call, and only a data callback changes  *)
(* the others.                                                             *)
ReportedNodes == DOMAIN params \ {<<"vMix Connected", 1>>}
C21_Frame ==
  /\ DOMAIN params' = DOMAIN params
  /\ ev'.type \in {"end", "error", "close", "timer", "connect", "invoke"} =>
       /\ \A n \in ReportedNodes : params'[n] = params[n]
       /\ \A k \in 1..Len(updates') : updates'[k].node = <<"vMix Connected", 1>>
  /\ (\E n \in ReportedNodes : params'[n] # params[n]) => ev'.type = "data"
C21_DisconnectFrame == [][C21_Frame]_vars

(* after a lost connection and a reconnect the tree still shows what the   *)
(* earlier connection had reported                                         *)
C21_Witness ==
  /\ ev.type = "connect"
  /\ params[<<"vMix Connected", 1>>]
  /\ params[<<"Preview Tally", 1>>]
  /\ params[<<"ACTS Status", "Recording">>]
(* C22: as long as no Ember+ client has set a value, so that only device   *)
(* reports have changed the parameters, no input has both its Program and  *)
(* its Preview parameter true, after tally reports of any lengths in any   *)
(* order.                                                                  *)
C22_ProgramPreviewExclusive ==
  ~clientSet =>
    \A i \in 1..32 :
      ~(params[<<"Program Tally", i>>] /\ params[<<"Preview Tally", i>>])

(* reports of 33 characters and then of 2 have left input 1 in preview,    *)
(* input 2 in program and input 32 in preview                              *)
C22_Witness ==
  /\ ~clientSet
  /\ ev.type = "data"
  /\ lines = <<TallyReportPrefix \o <<"2", "1">>>>
  /\ params[<<"Preview Tally", 1>>]
  /\ params[<<"Program Tally", 2>>]
  /\ params[<<"Preview Tally", 32>>]
====
